---- MODULE Spec2Model ----
(***************************************************************************)
(* A model of the measurement core of gomemtest: the access-pattern        *)
(* generator (setupRandomPattern, the rand.Perm linkers), the multi-pass   *)
(* latency sampler (runLatencyTests), the two cache-boundary detectors     *)
(* (EstimateCacheSizes, bandwidth- and latency-based) and the concurrency  *)
(* scaling harness (RunThreadedTest).                                      *)
(*                                                                         *)
(* Go slices are modelled as functions over 0..len-1, a nil pointer as Nil,*)
(* a pointer &nodes[k] as the storage index k.  Each routine has its own   *)
(* specification; the variables of the other routines stay at their idle   *)
(* values.                                                                 *)
(***************************************************************************)
EXTENDS Integers, Sequences, FiniteSets, TLC

VARIABLES
    \* setupRandomPattern (src/test2/advanced.go)
    pcPattern, nodeCount, indices, i, nodes, bigDraws,
    \* PointerChasingTest (src/pkg/test2/memtest.go)
    pcChase, chaseNodeCount, chaseIndices, chaseNodes, randomIdx, current,
    chased, count,
    \* MemTester.EstimateCacheSizes, bandwidth-based (src/unnamed/part_001)
    pcBw, sizeIndex, bandwidths, rises, l1Index, l2Index, l3Index, result,
    \* EstimateCacheSizes, latency-based (src/unnamed/part_003)
    pcLat, level, size, lastLatency, bestSize, latResult,
    \* runLatencyTests (src/test2/advanced.go)
    pcRun, runNodes, firstNode, runCurrent, pass, minLatency, maxLatency,
    runTotal, runAvg, passLog, printed,
    \* MemTester.RunThreadedTest (src/pkg/test1/test1.go)
    pcMain, threads, t, spawned, results, labels, totalLatency, mu, wg,
    arrays, pcWorker, latency, acc, roundLog, chart, iterations, threadID,
    workerRound, iters,
    \* MemTester.RunDetailedBenchmark (src/pkg/test1/test1.go)
    pcDetail, skipLarge, blockSizes, blockIndex, blockResults, blockLabels,
    blockLog, blockChart,
    \* MemTester.RunThreadedTest, buffer sizes (src/pkg/test1/test1.go)
    pcAlloc, allocThreads, allocBlockSize, allocElements, allocRound,
    allocTotal,
    \* setupRandomPattern, the minimum stride (src/test2/advanced.go)
    pcStride, strideNodes, strideDistance,
    \* the latency samplers, one dereference at a time
    pcSmp, smpKind, smpSize, smpIters, smpLinks, smpFirst, smpCurrent,
    smpWarmed, smpTimed, smpInside, smpOpen, smpPass, smpElapsed, smpLatency,
    smpPrinted,
    \* MemTester.RunCacheTests (src/unnamed/part_001)
    pcCt, cacheSizes, testIndex, testSize, latencyNodes, elements, readSum,
    tempBuffer, pointersPrinted

patternVars == <<pcPattern, nodeCount, indices, i, nodes, bigDraws>>

chaseVars == <<pcChase, chaseNodeCount, chaseIndices, chaseNodes, randomIdx,
               current, chased, count>>

bwVars == <<pcBw, sizeIndex, bandwidths, rises, l1Index, l2Index, l3Index,
            result>>

latVars == <<pcLat, level, size, lastLatency, bestSize, latResult>>

runVars == <<pcRun, runNodes, firstNode, runCurrent, pass, minLatency,
             maxLatency, runTotal, runAvg, passLog, printed>>

thrVars == <<pcMain, threads, t, spawned, results, labels, totalLatency, mu,
             wg, arrays, pcWorker, latency, acc, roundLog, chart, iterations,
             threadID, workerRound, iters>>

detailVars == <<pcDetail, skipLarge, blockSizes, blockIndex, blockResults,
                blockLabels, blockLog, blockChart>>

allocVars == <<pcAlloc, allocThreads, allocBlockSize, allocElements,
               allocRound, allocTotal>>

strideVars == <<pcStride, strideNodes, strideDistance>>

smpVars == <<pcSmp, smpKind, smpSize, smpIters, smpLinks, smpFirst,
             smpCurrent, smpWarmed, smpTimed, smpInside, smpOpen, smpPass,
             smpElapsed, smpLatency, smpPrinted>>

ctVars == <<pcCt, cacheSizes, testIndex, testSize, latencyNodes, elements,
            readSum, tempBuffer, pointersPrinted>>

vars == <<patternVars, chaseVars, bwVars, latVars, runVars, thrVars,
          detailVars, allocVars, strideVars, smpVars, ctVars>>

patternOthers == <<chaseVars, bwVars, latVars, runVars, thrVars, detailVars,
                   allocVars, strideVars, smpVars, ctVars>>

chaseOthers == <<patternVars, bwVars, latVars, runVars, thrVars, detailVars,
                 allocVars, strideVars, smpVars, ctVars>>

bwOthers == <<patternVars, chaseVars, latVars, runVars, thrVars, detailVars,
              allocVars, strideVars, smpVars, ctVars>>

latOthers == <<patternVars, chaseVars, bwVars, runVars, thrVars, detailVars,
               allocVars, strideVars, smpVars, ctVars>>

runOthers == <<patternVars, chaseVars, bwVars, latVars, thrVars, detailVars,
               allocVars, strideVars, smpVars, ctVars>>

thrOthers == <<patternVars, chaseVars, bwVars, latVars, runVars, detailVars,
               allocVars, strideVars, smpVars, ctVars>>

detailOthers == <<patternVars, chaseVars, bwVars, latVars, runVars, thrVars,
                  allocVars, strideVars, smpVars, ctVars>>

allocOthers == <<patternVars, chaseVars, bwVars, latVars, runVars, thrVars,
                 detailVars, strideVars, smpVars, ctVars>>

strideOthers == <<patternVars, chaseVars, bwVars, latVars, runVars, thrVars,
                  detailVars, allocVars, smpVars, ctVars>>

smpOthers == <<patternVars, chaseVars, bwVars, latVars, runVars, thrVars,
               detailVars, allocVars, strideVars, ctVars>>

ctOthers == <<patternVars, chaseVars, bwVars, latVars, runVars, thrVars,
              detailVars, allocVars, strideVars, smpVars>>

Nil == -1

Abs(a) == IF a < 0 THEN -a ELSE a

(***************************************************************************)
(* The state of a routine that is not running.                             *)
(***************************************************************************)

PatternIdle ==
    /\ pcPattern = "idle"
    /\ nodeCount = 0
    /\ indices = <<>>
    /\ i = 0
    /\ nodes = <<>>
    /\ bigDraws = 0

ChaseIdle ==
    /\ pcChase = "idle"
    /\ chaseNodeCount = 0
    /\ chaseIndices = <<>>
    /\ chaseNodes = <<>>
    /\ randomIdx = 0
    /\ current = Nil
    /\ chased = 0
    /\ count = 0

BwIdle ==
    /\ pcBw = "idle"
    /\ sizeIndex = 0
    /\ bandwidths = <<>>
    /\ rises = 0
    /\ l1Index = -1
    /\ l2Index = -1
    /\ l3Index = -1
    /\ result = <<>>

LatIdle ==
    /\ pcLat = "idle"
    /\ level = 0
    /\ size = 0
    /\ lastLatency = 0
    /\ bestSize = 0
    /\ latResult = <<>>

RunIdle ==
    /\ pcRun = "idle"
    /\ runNodes = <<>>
    /\ firstNode = Nil
    /\ runCurrent = Nil
    /\ pass = 0
    /\ minLatency = 0
    /\ maxLatency = 0
    /\ runTotal = 0
    /\ runAvg = <<>>
    /\ passLog = <<>>
    /\ printed = <<>>

ThrIdle ==
    /\ pcMain = "idle"
    /\ threads = 0
    /\ t = 0
    /\ spawned = 0
    /\ results = <<>>
    /\ labels = <<>>
    /\ totalLatency = 0
    /\ mu = Nil
    /\ wg = 0
    /\ arrays = <<>>
    /\ pcWorker = <<>>
    /\ latency = <<>>
    /\ acc = <<>>
    /\ roundLog = <<>>
    /\ chart = <<>>
    /\ iterations = 0
    /\ threadID = <<>>
    /\ workerRound = <<>>
    /\ iters = <<>>

DetailIdle ==
    /\ pcDetail = "idle"
    /\ skipLarge = FALSE
    /\ blockSizes = <<>>
    /\ blockIndex = 0
    /\ blockResults = <<>>
    /\ blockLabels = <<>>
    /\ blockLog = <<>>
    /\ blockChart = <<>>

AllocIdle ==
    /\ pcAlloc = "idle"
    /\ allocThreads = 0
    /\ allocBlockSize = 0
    /\ allocElements = 0
    /\ allocRound = 0
    /\ allocTotal = 0

StrideIdle ==
    /\ pcStride = "idle"
    /\ strideNodes = 0
    /\ strideDistance = 0

SmpIdle ==
    /\ pcSmp = "idle"
    /\ smpKind = ""
    /\ smpSize = 0
    /\ smpIters = 0
    /\ smpLinks = <<>>
    /\ smpFirst = 0
    /\ smpCurrent = 0
    /\ smpWarmed = 0
    /\ smpTimed = 0
    /\ smpInside = 0
    /\ smpOpen = FALSE
    /\ smpPass = 0
    /\ smpElapsed = 0
    /\ smpLatency = <<>>
    /\ smpPrinted = FALSE

CtIdle ==
    /\ pcCt = "idle"
    /\ cacheSizes = <<>>
    /\ testIndex = 0
    /\ testSize = 0
    /\ latencyNodes = 0
    /\ elements = 0
    /\ readSum = 0
    /\ tempBuffer = 0
    /\ pointersPrinted = 0

(***************************************************************************)
(* setupRandomPattern                                                      *)
(***************************************************************************)

\* Node counts the generator is run on.  16 is the largest count for which
\* rand.Intn receives a non-positive argument; 65 is the smallest count
\* that takes the nodeCount/4 branch.
NodeCounts == {16, 17, 18, 19, 65}

\* At most this many iterations of the shuffle draw a non-zero random number.
MaxBigDraws == 1

PrefetchDistance == 16

LargeArrayNodes == 64

\* The stride of the small-array branch, whatever the node count.
MinDistanceFixed(n) == PrefetchDistance

\* minDistance := 16; if nodeCount > 64 { minDistance = nodeCount / 4 }
MinDistance(n) == IF n > LargeArrayNodes THEN n \div 4 ELSE PrefetchDistance

\* The values rand.Intn(n) is drawn from: the two ends of 0..n-1.
Draws(n) == {r \in {0, n - 1} : 0 <= r /\ r < n}

\* j := (i + minDistance + rand.Intn(nodeCount-minDistance)) % nodeCount
SwapPartner(pos, n, r) == (pos + MinDistance(n) + r) % n

\* indices[i], indices[j] = indices[j], indices[i]
Swap(idx, a, b) == [idx EXCEPT ![a] = idx[b], ![b] = idx[a]]

\* The linking that forgets to close the cycle.
LinkNodesOpen(idx, n) ==
    [k \in 0..(n - 1) |->
        LET p == CHOOSE q \in 0..(n - 1) : idx[q] = k
        IN  IF p < n - 1 THEN idx[p + 1] ELSE Nil]

\* for i < nodeCount-1 { nodes[indices[i]].next = &nodes[indices[i+1]] }
\* nodes[indices[nodeCount-1]].next = &nodes[indices[0]]
LinkNodes(idx, n) ==
    [k \in 0..(n - 1) |->
        LET p == CHOOSE q \in 0..(n - 1) : idx[q] = k
        IN  IF p < n - 1 THEN idx[p + 1] ELSE idx[0]]

\* nodes := make([]Node, nodeCount); indices[i] = i
PatternInit ==
    /\ pcPattern = "shuffle"
    /\ nodeCount \in NodeCounts
    /\ indices = [k \in 0..(nodeCount - 1) |-> k]
    /\ i = 0
    /\ nodes = [k \in 0..(nodeCount - 1) |-> Nil]
    /\ bigDraws = 0

\* One iteration of the shuffle loop.
ShuffleStep ==
    /\ pcPattern = "shuffle"
    /\ i < nodeCount
    /\ nodeCount - MinDistance(nodeCount) > 0
    /\ \E r \in Draws(nodeCount - MinDistance(nodeCount)) :
          /\ r > 0 => bigDraws < MaxBigDraws
          /\ bigDraws' = IF r > 0 THEN bigDraws + 1 ELSE bigDraws
          /\ indices' = Swap(indices, i, SwapPartner(i, nodeCount, r))
    /\ i' = i + 1
    /\ UNCHANGED <<pcPattern, nodeCount, nodes>>
    /\ UNCHANGED patternOthers

\* rand.Intn panics when its argument is not positive.
ShufflePanic ==
    /\ pcPattern = "shuffle"
    /\ i < nodeCount
    /\ nodeCount - MinDistance(nodeCount) <= 0
    /\ pcPattern' = "panic"
    /\ UNCHANGED <<nodeCount, indices, i, nodes, bigDraws>>
    /\ UNCHANGED patternOthers

\* The two linking loops after the shuffle.
LinkStep ==
    /\ pcPattern = "shuffle"
    /\ i = nodeCount
    /\ nodes' = LinkNodes(indices, nodeCount)
    /\ pcPattern' = "done"
    /\ UNCHANGED <<nodeCount, indices, i, bigDraws>>
    /\ UNCHANGED patternOthers

PatternNext == ShuffleStep \/ ShufflePanic \/ LinkStep

PatternSpecInit == PatternInit /\ ChaseIdle /\ BwIdle /\ LatIdle /\ RunIdle /\ ThrIdle
    /\ DetailIdle
    /\ AllocIdle
    /\ StrideIdle
    /\ SmpIdle
    /\ CtIdle

PatternSpec == PatternSpecInit /\ [][PatternNext]_vars

\* current = current.next; dereferencing a nil pointer yields no node.
Deref(nxt, k) == IF k = Nil THEN Nil ELSE nxt[k]

\* The nodes reached by 1, 2, ..., k dereferences starting from node s.
RECURSIVE Trail(_, _, _)
Trail(nxt, s, k) ==
    IF k = 0 THEN <<>>
    ELSE LET d == Deref(nxt, s) IN <<d>> \o Trail(nxt, d, k - 1)

Range(f) == {f[x] : x \in DOMAIN f}

\* C1: once setupRandomPattern has linked the arena, the successor
\* function is one cycle of length nodeCount: from every starting node,
\* nodeCount steps visit nodeCount distinct nodes, none of them nil, and
\* end on the starting node.
C1_SingleCycle ==
    pcPattern = "done" =>
        \A s \in 0..(nodeCount - 1) :
            LET tr == Trail(nodes, s, nodeCount)
            IN  /\ Nil \notin Range(tr)
                /\ Cardinality(Range(tr)) = nodeCount
                /\ tr[nodeCount] = s

\* A linked arena of the nodeCount/4 branch built with a non-zero draw.
C1_Witness ==
    /\ pcPattern = "done"
    /\ nodeCount > LargeArrayNodes
    /\ bigDraws > 0
    /\ \A k \in 0..(nodeCount - 1) : nodes[k] # Nil

\* C2: after setupRandomPattern no node's successor lies within
\* minDistance positions of it in storage order.
C2_MinStride ==
    pcPattern = "done" =>
        \A k \in 0..(nodeCount - 1) :
            Abs(nodes[k] - k) >= MinDistance(nodeCount)

(***************************************************************************)
(* PointerChasingTest                                                      *)
(***************************************************************************)

\* Largest node count of the rand.Perm based tests.
MaxChaseNodes == 4

\* Dereferences of the warm-up loop (1000 in the code).
ChaseWarmup == 3

\* Dereferences of the timed loop (Config.Iterations in the code).
ChaseIterations == 6

\* rand.Perm(n): every permutation of 0..n-1.
Perm(n) ==
    {f \in [0..(n - 1) -> 0..(n - 1)] :
        \A a, b \in 0..(n - 1) : f[a] = f[b] => a = b}

\* The closure that connects the last node back to the first one.
LinkToRandomFirst(idx, n, r) ==
    [k \in 0..(n - 1) |->
        LET p == CHOOSE q \in 0..(n - 1) : idx[q] = k
        IN  IF p < n - 1 THEN idx[p + 1] ELSE idx[0]]

\* for i < nodeCount-1 { nodes[indices[i]].Next = &nodes[indices[i+1]] }
\* nodes[indices[nodeCount-1]].Next = &nodes[indices[randomIdx]]
LinkToRandom(idx, n, r) ==
    [k \in 0..(n - 1) |->
        LET p == CHOOSE q \in 0..(n - 1) : idx[q] = k
        IN  IF p < n - 1 THEN idx[p + 1] ELSE idx[r]]

\* nodes := make([]Node, nodeCount); indices := rand.Perm(nodeCount)
\* A SizeInMB of 0 gives no node at all.
ChaseInit ==
    /\ pcChase = "link"
    /\ chaseNodeCount \in {0} \cup 3..MaxChaseNodes
    /\ chaseIndices \in Perm(chaseNodeCount)
    /\ chaseNodes = [k \in 0..(chaseNodeCount - 1) |-> Nil]
    /\ randomIdx = 0
    /\ current = Nil
    /\ chased = 0
    /\ count = 0

\* randomIdx := rand.Intn(nodeCount-2) + 1, the links, current := &nodes[indices[0]]
ChaseLink ==
    /\ pcChase = "link"
    /\ chaseNodeCount - 2 > 0
    /\ \E r \in 0..(chaseNodeCount - 3) :
          /\ randomIdx' = r + 1
          /\ chaseNodes' = LinkToRandom(chaseIndices, chaseNodeCount, r + 1)
    /\ current' = chaseIndices[0]
    /\ pcChase' = "warmup"
    /\ UNCHANGED <<chaseNodeCount, chaseIndices, chased, count>>
    /\ UNCHANGED chaseOthers

\* rand.Intn panics when its argument is not positive.
ChaseLinkPanic ==
    /\ pcChase = "link"
    /\ chaseNodeCount - 2 <= 0
    /\ pcChase' = "panic"
    /\ UNCHANGED <<chaseNodeCount, chaseIndices, chaseNodes, randomIdx,
                   current, chased, count>>
    /\ UNCHANGED chaseOthers

\* for i := 0; i < 1000; i++ { current = current.Next }
ChaseWarmupStep ==
    /\ pcChase = "warmup"
    /\ chased < ChaseWarmup
    /\ current' = Deref(chaseNodes, current)
    /\ chased' = chased + 1
    /\ UNCHANGED <<pcChase, chaseNodeCount, chaseIndices, chaseNodes,
                   randomIdx, count>>
    /\ UNCHANGED chaseOthers

\* start := time.Now(); node := current; count := 0
ChaseStart ==
    /\ pcChase = "warmup"
    /\ chased = ChaseWarmup
    /\ pcChase' = "timed"
    /\ count' = 0
    /\ UNCHANGED <<chaseNodeCount, chaseIndices, chaseNodes, randomIdx,
                   current, chased>>
    /\ UNCHANGED chaseOthers

\* for i < Iterations { node = node.Next; count++ }
ChaseTimedStep ==
    /\ pcChase = "timed"
    /\ count < ChaseIterations
    /\ current' = Deref(chaseNodes, current)
    /\ chased' = chased + 1
    /\ count' = count + 1
    /\ UNCHANGED <<pcChase, chaseNodeCount, chaseIndices, chaseNodes,
                   randomIdx>>
    /\ UNCHANGED chaseOthers

\* elapsed := time.Since(start) and the report.
ChaseFinish ==
    /\ pcChase = "timed"
    /\ count = ChaseIterations
    /\ pcChase' = "done"
    /\ UNCHANGED <<chaseNodeCount, chaseIndices, chaseNodes, randomIdx,
                   current, chased, count>>
    /\ UNCHANGED chaseOthers

ChaseNext ==
    \/ ChaseLink
    \/ ChaseLinkPanic
    \/ ChaseWarmupStep
    \/ ChaseStart
    \/ ChaseTimedStep
    \/ ChaseFinish

ChaseSpecInit == ChaseInit /\ PatternIdle /\ BwIdle /\ LatIdle /\ RunIdle /\ ThrIdle
    /\ DetailIdle
    /\ AllocIdle
    /\ StrideIdle
    /\ SmpIdle
    /\ CtIdle

ChaseSpec == ChaseSpecInit /\ [][ChaseNext]_vars

Linked == pcChase \in {"warmup", "timed", "done"}

MaxRises == 1

\* The buffer sizes of the sweep, sizes[0..13].
Sizes ==
    <<4 * 1024, 8 * 1024, 16 * 1024, 32 * 1024, 64 * 1024, 128 * 1024,
      256 * 1024, 512 * 1024, 1024 * 1024, 2 * 1024 * 1024, 4 * 1024 * 1024,
      8 * 1024 * 1024, 16 * 1024 * 1024, 32 * 1024 * 1024>>

NumSizes == Len(Sizes)

\* sizes[k], the slice being indexed from 0.
SizeAt(k) == Sizes[k + 1]

\* The float64 +Inf of a bandwidth computed from an elapsed time of zero.
PosInf == 2 ^ 30

\* The bandwidths (GB/s) a measurement yields: from 10 to 7 is a drop of
\* exactly 30%, from 7 to 4 and from 10 to 4 a larger one.
BandwidthValues == {4, 7, 10}

\* result := CacheSizes{L1: 32 * 1024, L2: 256 * 1024, L3: 8 * 1024 * 1024}
DefaultSizes == [L1 |-> 32 * 1024, L2 |-> 256 * 1024, L3 |-> 8 * 1024 * 1024]

\* drop := 1.0 - (bandwidths[i] / bandwidths[i-1]); drop > 0.3, in float64:
\* Inf/Inf is NaN and compares false, x/Inf is 0 (a drop of 1), Inf/x is
\* +Inf (a drop of -Inf).  For the finite values above the quotient is
\* rounded to the nearest float64, and 1.0 - 7.0/10.0 evaluates to
\* 0.30000000000000004, which exceeds the float64 constant 0.3; so a drop
\* qualifies exactly when cur/prev <= 0.7.
DropQualifies(prev, cur) ==
    IF prev = PosInf THEN cur # PosInf
    ELSE IF cur = PosInf THEN FALSE
    ELSE 10 * cur <= 7 * prev

\* The scan of the analysis loop from index k on, given the indices found
\* so far; the loop breaks once l3Index is set.
RECURSIVE ScanDrops(_, _, _, _, _)
ScanDrops(bw, k, l1, l2, l3) ==
    IF k >= NumSizes THEN <<l1, l2, l3>>
    ELSE IF DropQualifies(bw[k - 1], bw[k])
         THEN IF l1 = -1 THEN ScanDrops(bw, k + 1, k, l2, l3)
              ELSE IF l2 = -1 THEN ScanDrops(bw, k + 1, l1, k, l3)
              ELSE IF l3 = -1 THEN <<l1, l2, k>>
              ELSE ScanDrops(bw, k + 1, l1, l2, l3)
         ELSE ScanDrops(bw, k + 1, l1, l2, l3)

\* The update that takes the size at the regression itself.
UpdatedSizeAtDrop(old, index) ==
    IF index # -1 THEN SizeAt(index) ELSE old

\* The update that overwrites a level whether or not a drop was found.
UpdatedSizeAlways(old, index) ==
    IF index # -1 THEN SizeAt(index - 1) ELSE 0

\* if l1Index != -1 { result.L1 = sizes[l1Index-1] }
UpdatedSize(old, index) ==
    IF index # -1 THEN SizeAt(index - 1) ELSE old

BwInit ==
    /\ pcBw = "measure"
    /\ sizeIndex = 0
    /\ bandwidths = [k \in 0..(NumSizes - 1) |-> 0]
    /\ rises = 0
    /\ l1Index = -1
    /\ l2Index = -1
    /\ l3Index = -1
    /\ result = DefaultSizes

\* One iteration of the measuring loop: bandwidths[i] = bandwidthGBs.
BwMeasure ==
    /\ pcBw = "measure"
    /\ sizeIndex < NumSizes
    /\ \E b \in BandwidthValues :
          LET rise == sizeIndex > 0 /\ b > bandwidths[sizeIndex - 1]
          IN  /\ rise => rises < MaxRises
              /\ rises' = IF rise THEN rises + 1 ELSE rises
              /\ bandwidths' = [bandwidths EXCEPT ![sizeIndex] = b]
    /\ sizeIndex' = sizeIndex + 1
    /\ UNCHANGED <<pcBw, l1Index, l2Index, l3Index, result>>
    /\ UNCHANGED bwOthers

\* The analysis loop and the update of result.
BwAnalyze ==
    /\ pcBw = "measure"
    /\ sizeIndex = NumSizes
    /\ LET found == ScanDrops(bandwidths, 1, -1, -1, -1)
       IN  /\ l1Index' = found[1]
           /\ l2Index' = found[2]
           /\ l3Index' = found[3]
           /\ result' = [L1 |-> UpdatedSize(result.L1, found[1]),
                         L2 |-> UpdatedSize(result.L2, found[2]),
                         L3 |-> UpdatedSize(result.L3, found[3])]
    /\ pcBw' = "done"
    /\ UNCHANGED <<sizeIndex, bandwidths, rises>>
    /\ UNCHANGED bwOthers

BwNext == BwMeasure \/ BwAnalyze

BwSpecInit == BwInit /\ PatternIdle /\ ChaseIdle /\ LatIdle /\ RunIdle /\ ThrIdle
    /\ DetailIdle
    /\ AllocIdle
    /\ StrideIdle
    /\ SmpIdle
    /\ CtIdle

BwSpec == BwSpecInit /\ [][BwNext]_vars

\* The indices at which the measured series has a qualifying drop.
DropIndices ==
    {k \in 1..(NumSizes - 1) : DropQualifies(bandwidths[k - 1], bandwidths[k])}

\* The n-th smallest element of the set of indices S.
NthIndex(S, n) == CHOOSE k \in S : Cardinality({m \in S : m < k}) = n - 1

\* The size reported for cache level n.
Level(r, n) == IF n = 1 THEN r.L1 ELSE IF n = 2 THEN r.L2 ELSE r.L3

\* C5: the first, second and third index with a qualifying drop, in
\* ascending order, are attributed to L1, L2 and L3, each level receiving
\* the size just below the regression; later drops change nothing.
C5_Attribution ==
    pcBw = "done" =>
        \A n \in 1..3 :
            Cardinality(DropIndices) >= n =>
                Level(result, n) = SizeAt(NthIndex(DropIndices, n) - 1)

\* A finished run whose series has more than three qualifying drops.
C5_Witness == pcBw = "done" /\ Cardinality(DropIndices) > 3

\* C6: with fewer than three qualifying drops every level without a drop
\* keeps its default; one drop at index k gives L1 = sizes[k-1] with L2
\* and L3 at their defaults, and no drop gives the three defaults.
C6_DefaultsRetained ==
    pcBw = "done" =>
        /\ \A n \in 1..3 :
              Cardinality(DropIndices) < n =>
                  Level(result, n) = Level(DefaultSizes, n)
        /\ DropIndices = {} => result = DefaultSizes
        /\ \A k \in 1..(NumSizes - 1) :
              DropIndices = {k} =>
                  result = [DefaultSizes EXCEPT !.L1 = SizeAt(k - 1)]

\* A finished run whose series has exactly one qualifying drop.
C6_Witness == pcBw = "done" /\ Cardinality(DropIndices) = 1

\* C8: the estimate returned for any measured series is strictly ordered.
C8_Ordered == pcBw = "done" => (result.L1 < result.L2 /\ result.L2 < result.L3)

(***************************************************************************)
(* EstimateCacheSizes, latency-based, and estimateCacheSize                *)
(***************************************************************************)

SamplesPerSize == 3

\* The sums of the three timed samples of one size, in nanoseconds: an
\* average of 0, 4, 6 (exactly 1.5 times 4) or 8.
TotalLatencies == {0, 12, 18, 24}

\* The arguments of the three calls of estimateCacheSize.
Sweeps ==
    <<[minSize |-> 4 * 1024, maxSize |-> 64 * 1024, step |-> 4 * 1024],
      [minSize |-> 64 * 1024, maxSize |-> 1024 * 1024, step |-> 64 * 1024],
      [minSize |-> 1024 * 1024, maxSize |-> 32 * 1024 * 1024,
       step |-> 1024 * 1024]>>

\* avgLatency := totalLatency / samplesPerSize
AvgLatency(total) == total \div SamplesPerSize

\* A detector whose threshold is 2 instead of 1.5.
LatencyJumpDouble(last, avg) == last > 0 /\ avg > 2 * last

\* if lastLatency > 0 { if avgLatency > lastLatency*threshold {
\* with threshold = 1.5
LatencyJump(last, avg) == last > 0 /\ 2 * avg > 3 * last

\* result.L1 = ..., result.L2 = ..., result.L3 = ... for the n-th call
SetLevel(r, n, v) ==
    IF n = 1 THEN [r EXCEPT !.L1 = v]
    ELSE IF n = 2 THEN [r EXCEPT !.L2 = v]
    ELSE [r EXCEPT !.L3 = v]

\* The defaults, then the first call: lastLatency and bestSize are zero.
LatInit ==
    /\ pcLat = "sweep"
    /\ level = 1
    /\ size = Sweeps[1].minSize
    /\ lastLatency = 0
    /\ bestSize = 0
    /\ latResult = DefaultSizes

\* One iteration of the loop over sizes.
LatSample ==
    /\ pcLat = "sweep"
    /\ size <= Sweeps[level].maxSize
    /\ \E total \in TotalLatencies :
          IF LatencyJump(lastLatency, AvgLatency(total))
          THEN /\ bestSize' = size - Sweeps[level].step
               /\ pcLat' = "return"
               /\ UNCHANGED <<size, lastLatency>>
          ELSE /\ lastLatency' = AvgLatency(total)
               /\ size' = size + Sweeps[level].step
               /\ UNCHANGED <<pcLat, bestSize>>
    /\ UNCHANGED <<level, latResult>>
    /\ UNCHANGED latOthers

\* The loop ends with size > maxSize.
LatExhausted ==
    /\ pcLat = "sweep"
    /\ size > Sweeps[level].maxSize
    /\ pcLat' = "return"
    /\ UNCHANGED <<level, size, lastLatency, bestSize, latResult>>
    /\ UNCHANGED latOthers

\* return bestSize, assigned to the level's field; then the next call.
LatReturn ==
    /\ pcLat = "return"
    /\ latResult' = SetLevel(latResult, level, bestSize)
    /\ IF level < Len(Sweeps)
       THEN /\ level' = level + 1
            /\ size' = Sweeps[level + 1].minSize
            /\ lastLatency' = 0
            /\ bestSize' = 0
            /\ pcLat' = "sweep"
       ELSE /\ pcLat' = "done"
            /\ UNCHANGED <<level, size, lastLatency, bestSize>>
    /\ UNCHANGED latOthers

LatNext == LatSample \/ LatExhausted \/ LatReturn

LatSpecInit == LatInit /\ PatternIdle /\ ChaseIdle /\ BwIdle /\ RunIdle /\ ThrIdle
    /\ DetailIdle
    /\ AllocIdle
    /\ StrideIdle
    /\ SmpIdle
    /\ CtIdle

LatSpec == LatSpecInit /\ [][LatNext]_vars

\* C7: the estimate returned by the latency-based detector has no level
\* that is unset or zero: a level without a latency jump keeps its default.
C7_NoLevelUnset ==
    pcLat = "done" =>
        /\ latResult.L1 > 0
        /\ latResult.L2 > 0
        /\ latResult.L3 > 0

(***************************************************************************)
(* runLatencyTests                                                         *)
(***************************************************************************)

\* Dereferences of the warm-up loop (1000000 in the code).
RunWarmup == 2

\* Dereferences of one timed pass (iterCount, 10000000 in the code).
RunIterCount == 3

NumPasses == 5

\* minLatency = 1000000 // Start with a high number
MinLatencyStart == 1000000

\* The nanoseconds per access a pass can take: a pass whose elapsed time
\* reads zero, cache-resident, DRAM, and a pass that the host stretched to
\* more than a millisecond per access.
NsPerAccessValues == {0, 2, 80, 2000000}

\* The indices left by the whole shuffle loop when every draw is r.
RECURSIVE Shuffled(_, _, _, _)
Shuffled(idx, pos, n, r) ==
    IF pos = n THEN idx
    ELSE Shuffled(Swap(idx, pos, SwapPartner(pos, n, r)), pos + 1, n, r)

\* The arena setupRandomPattern hands over for n nodes, every draw being r.
Arena(n, r) == LinkNodes(Shuffled([k \in 0..(n - 1) |-> k], 0, n, r), n)

\* The node reached from s by k dereferences.
RECURSIVE Chase(_, _, _)
Chase(nxt, s, k) == IF k = 0 THEN s ELSE Chase(nxt, Deref(nxt, s), k - 1)

\* nsPerAccess := float64(elapsed.Nanoseconds()) / float64(iterCount)
NsPerAccess(elapsed) == elapsed \div RunIterCount

\* if nsPerAccess < minLatency { minLatency = nsPerAccess }
TrackMin(lowest, ns) == IF ns < lowest THEN ns ELSE lowest

\* if nsPerAccess > maxLatency { maxLatency = nsPerAccess }
TrackMax(highest, ns) == IF ns > highest THEN ns ELSE highest

\* A pass that goes on from where the previous loop stopped.
PassStartContinue(first, cur) == cur

\* current = firstNode // Reset to start
PassStart(first, cur) == first

\* fmt.Printf("Pass %d: %.2f ns\n", pass+1, nsPerAccess): the line holds the
\* pass and the value and no mark of any kind.
PassLine(p, ns) == [pass |-> p, ns |-> ns, suspect |-> FALSE]

\* firstNode := &(*nodes)[rand.Intn(len(*nodes))]; current := firstNode;
\* minLatency = 1000000; maxLatency and totalLatency are zero.
RunInit ==
    /\ pcRun = "warmup"
    /\ runNodes \in {Arena(17, 0), Arena(18, 0), Arena(18, 1), Arena(19, 2)}
    /\ firstNode \in DOMAIN runNodes
    /\ runCurrent = firstNode
    /\ pass = 0
    /\ minLatency = MinLatencyStart
    /\ maxLatency = 0
    /\ runTotal = 0
    /\ runAvg = <<>>
    /\ passLog = <<>>
    /\ printed = <<>>

\* for i < warmupIterations { current = current.next }
RunWarmupLoop ==
    /\ pcRun = "warmup"
    /\ runCurrent' = Chase(runNodes, runCurrent, RunWarmup)
    /\ pcRun' = "passes"
    /\ UNCHANGED <<runNodes, firstNode, pass, minLatency, maxLatency,
                   runTotal, runAvg, passLog, printed>>
    /\ UNCHANGED runOthers

\* One pass: the timed loop from firstNode, then the statistics.
RunPass ==
    /\ pcRun = "passes"
    /\ pass < NumPasses
    /\ runCurrent' = Chase(runNodes, PassStart(firstNode, runCurrent),
                            RunIterCount)
    /\ \E ns \in NsPerAccessValues :
          LET nsPerAccess == NsPerAccess(ns * RunIterCount)
          IN  /\ minLatency' = TrackMin(minLatency, nsPerAccess)
              /\ maxLatency' = TrackMax(maxLatency, nsPerAccess)
              /\ runTotal' = runTotal + nsPerAccess
              /\ passLog' = Append(passLog, nsPerAccess)
              /\ printed' = Append(printed, PassLine(pass + 1, nsPerAccess))
    /\ pass' = pass + 1
    /\ UNCHANGED <<pcRun, runNodes, firstNode, runAvg>>
    /\ UNCHANGED runOthers

\* avgLatency := totalLatency / 5, kept as numerator and denominator.
RunReport ==
    /\ pcRun = "passes"
    /\ pass = NumPasses
    /\ runAvg' = <<runTotal, 5>>
    /\ pcRun' = "done"
    /\ UNCHANGED <<runNodes, firstNode, runCurrent, pass, minLatency,
                   maxLatency, runTotal, passLog, printed>>
    /\ UNCHANGED runOthers

RunNext == RunWarmupLoop \/ RunPass \/ RunReport

RunSpecInit == RunInit /\ PatternIdle /\ ChaseIdle /\ BwIdle /\ LatIdle /\ ThrIdle
    /\ DetailIdle
    /\ AllocIdle
    /\ StrideIdle
    /\ SmpIdle
    /\ CtIdle

RunSpec == RunSpecInit /\ [][RunNext]_vars

RECURSIVE SumSeq(_)
SumSeq(q) == IF q = <<>> THEN 0 ELSE Head(q) + SumSeq(Tail(q))

\* C10: runLatencyTests runs exactly 5 timed passes and reports, for any
\* five per-pass values, their smallest as Minimum, their largest as
\* Maximum and their sum divided by 5 as Average.
C10_Statistics ==
    pcRun = "done" =>
        /\ Len(passLog) = 5
        /\ minLatency \in Range(passLog)
        /\ \A v \in Range(passLog) : minLatency <= v
        /\ maxLatency \in Range(passLog)
        /\ \A v \in Range(passLog) : v <= maxLatency
        /\ runAvg[1] = SumSeq(passLog) /\ runAvg[2] = 5
        /\ minLatency * runAvg[2] <= runAvg[1]
        /\ runAvg[1] <= maxLatency * runAvg[2]

(***************************************************************************)
(* MemTester.RunThreadedTest                                               *)
(***************************************************************************)

\* Largest Config.Threads.
MaxThreads == 3

\* Largest Config.Threads of the runs checked for termination.
MaxFairThreads == 2

\* The latencies (ns per access) a worker can measure.
LatencyValues == {1, 3}

\* The values of Config.Iterations: one whose share per worker is the
\* plain quotient in rounds 1 and 2 and falls below the floor from round 3.
IterationCounts == {2000000}

\* if iters < 1000000 { iters = 1000000 }
MinIters == 1000000

Workers == 0..(threads - 1)

\* The loop that stops one round early.
RoundsRemainExclusive(round, n) == round < n

\* for t := 1; t <= m.Config.Threads; t++
RoundsRemain(round, n) == round <= n

\* A lock that is granted whether or not it is held.
LockFreeAlways(m) == TRUE

\* mu.Lock() returns only when no goroutine holds mu.
LockFree(m) == m = Nil

\* An unlock that leaves the lock with its holder.
StillLocked(m) == m

\* mu.Unlock()
Unlocked(m) == Nil

\* A wait that returns whatever the counter is.
WaitReturnsAlways(counter) == TRUE

\* wg.Wait() returns only when the counter is zero.
WaitReturns(counter) == counter = 0

\* A closure that reads array 0 whatever the loop index is.
ThreadArgFirst(index) == 0

\* go func(threadID int) {...}(i): the loop index is passed by value.
ThreadArg(index) == index

\* The iteration count without its floor.
ItersUnclamped(n, round) == n \div round

\* iters := m.Config.Iterations / t; if iters < 1000000 { iters = 1000000 }
Iters(n, round) == IF n \div round < MinIters THEN MinIters ELSE n \div round

\* A loop that steps over every other round.
NextRoundSkipping(round) == round + 2

\* for ...; t++
NextRound(round) == round + 1

\* A worker that asks for the lock before it has run its timed loop.
WorkerEntryLock == "lock"

\* The first statements of the closure: iters, threadStart and the timed
\* loop; the lock comes after them.
WorkerEntry == "run"

\* fmt.Sprintf("%d", t)
Label(round) == ToString(round)

\* totalLatency / float64(t), kept as numerator and denominator.
Average(total, round) == <<total, round>>

\* results := make([]float64, Threads); labels := make([]string, Threads)
ThrInit ==
    /\ pcMain = "loop"
    /\ threads \in 1..MaxThreads
    /\ iterations \in IterationCounts
    /\ t = 1
    /\ spawned = 0
    /\ results = [k \in 0..(threads - 1) |-> <<0, 1>>]
    /\ labels = [k \in 0..(threads - 1) |-> ""]
    /\ totalLatency = 0
    /\ mu = Nil
    /\ wg = 0
    /\ arrays = <<>>
    /\ pcWorker = [w \in 0..(threads - 1) |-> "none"]
    /\ threadID = [w \in 0..(threads - 1) |-> Nil]
    /\ workerRound = [w \in 0..(threads - 1) |-> 0]
    /\ iters = [w \in 0..(threads - 1) |-> 0]
    /\ latency = [w \in 0..(threads - 1) |-> 0]
    /\ acc = [w \in 0..(threads - 1) |-> 0]
    /\ roundLog = <<>>
    /\ chart = <<>>

\* The head of a round: the label, a fresh wg, mu and totalLatency, and
\* arrays := make([][]int64, t), t nil slices.  The goroutines of the
\* round are new ones.
ThrRoundStart ==
    /\ pcMain = "loop"
    /\ RoundsRemain(t, threads)
    /\ labels' = [labels EXCEPT ![t - 1] = Label(t)]
    /\ wg' = 0
    /\ mu' = Nil
    /\ totalLatency' = 0
    /\ arrays' = [a \in 0..(t - 1) |-> "nil"]
    /\ spawned' = 0
    /\ pcWorker' = [w \in Workers |-> "none"]
    /\ threadID' = [w \in Workers |-> Nil]
    /\ workerRound' = [w \in Workers |-> 0]
    /\ iters' = [w \in Workers |-> 0]
    /\ latency' = [w \in Workers |-> 0]
    /\ acc' = [w \in Workers |-> 0]
    /\ pcMain' = "build"
    /\ UNCHANGED <<threads, iterations, t, results, roundLog, chart>>
    /\ UNCHANGED thrOthers

\* for i := 0; i < t; i++ { arrays[i] = make(...); the cycle is linked }
ThrBuildArrays ==
    /\ pcMain = "build"
    /\ arrays' = [a \in DOMAIN arrays |-> "built"]
    /\ pcMain' = "warm"
    /\ UNCHANGED <<threads, iterations, t, spawned, results, labels,
                   totalLatency, mu, wg, pcWorker, threadID, workerRound,
                   iters, latency, acc, roundLog, chart>>
    /\ UNCHANGED thrOthers

\* for i := 0; i < t; i++ { the warm-up chase over arrays[i] };
\* start := time.Now()
ThrWarmArrays ==
    /\ pcMain = "warm"
    /\ \A a \in DOMAIN arrays : arrays[a] = "built"
    /\ arrays' = [a \in DOMAIN arrays |-> "warm"]
    /\ pcMain' = "spawn"
    /\ UNCHANGED <<threads, iterations, t, spawned, results, labels,
                   totalLatency, mu, wg, pcWorker, threadID, workerRound,
                   iters, latency, acc, roundLog, chart>>
    /\ UNCHANGED thrOthers

\* wg.Add(1); go func(threadID int) {...}(i)
ThrSpawn ==
    /\ pcMain = "spawn"
    /\ spawned < t
    /\ wg' = wg + 1
    /\ pcWorker' = [pcWorker EXCEPT ![spawned] = WorkerEntry]
    /\ threadID' = [threadID EXCEPT ![spawned] = ThreadArg(spawned)]
    /\ workerRound' = [workerRound EXCEPT ![spawned] = t]
    /\ spawned' = spawned + 1
    /\ UNCHANGED <<pcMain, threads, iterations, t, results, labels,
                   totalLatency, mu, arrays, iters, latency, acc, roundLog,
                   chart>>
    /\ UNCHANGED thrOthers

\* The spawning loop is over; the harness calls wg.Wait().
ThrSpawned ==
    /\ pcMain = "spawn"
    /\ spawned = t
    /\ pcMain' = "wait"
    /\ UNCHANGED <<threads, iterations, t, spawned, results, labels,
                   totalLatency, mu, wg, arrays, pcWorker, threadID,
                   workerRound, iters, latency, acc, roundLog, chart>>
    /\ UNCHANGED thrOthers

\* wg.Wait() returns; avgLatency := totalLatency / float64(t);
\* results[t-1] = avgLatency; the round's line is printed.
ThrAverage ==
    /\ pcMain = "wait"
    /\ WaitReturns(wg)
    /\ results' = [results EXCEPT ![t - 1] = Average(totalLatency, t)]
    /\ roundLog' = Append(roundLog,
                          [t |-> t, avgLatency |-> Average(totalLatency, t)])
    /\ pcMain' = "roundEnd"
    /\ UNCHANGED <<threads, iterations, t, spawned, labels, totalLatency, mu,
                   wg, arrays, pcWorker, threadID, workerRound, iters,
                   latency, acc, chart>>
    /\ UNCHANGED thrOthers

\* t++
ThrNextRound ==
    /\ pcMain = "roundEnd"
    /\ t' = NextRound(t)
    /\ pcMain' = "loop"
    /\ UNCHANGED <<threads, iterations, spawned, results, labels,
                   totalLatency, mu, wg, arrays, pcWorker, threadID,
                   workerRound, iters, latency, acc, roundLog, chart>>
    /\ UNCHANGED thrOthers

\* func (m *MemTester) drawChart(title, values, labels, unit): the sink
\* ranges over values and labels and writes to neither.
DrawChart(vals, labs) == [values |-> vals, labels |-> labs]

\* m.drawChart("Multi-threaded Memory Latency", results, labels, "ns")
ThrDrawChart ==
    /\ pcMain = "loop"
    /\ ~RoundsRemain(t, threads)
    /\ chart' = DrawChart(results, labels)
    /\ pcMain' = "done"
    /\ UNCHANGED <<threads, iterations, t, spawned, results, labels,
                   totalLatency, mu, wg, arrays, pcWorker, threadID,
                   workerRound, iters, latency, acc, roundLog>>
    /\ UNCHANGED thrOthers

\* iters from Config.Iterations and the t the closure reads, the timed
\* chase of iters steps over arrays[threadID], latency := elapsed / iters
WorkerRun(w) ==
    /\ pcWorker[w] = "run"
    /\ threadID[w] \in DOMAIN arrays
    /\ arrays[threadID[w]] # "nil"
    /\ iters' = [iters EXCEPT ![w] = Iters(iterations, t)]
    /\ \E l \in LatencyValues : latency' = [latency EXCEPT ![w] = l]
    /\ pcWorker' = [pcWorker EXCEPT ![w] = "lock"]
    /\ UNCHANGED <<pcMain, threads, iterations, t, spawned, results, labels,
                   totalLatency, mu, wg, arrays, threadID, workerRound, acc,
                   roundLog, chart>>
    /\ UNCHANGED thrOthers

\* mu.Lock()
WorkerLock(w) ==
    /\ pcWorker[w] = "lock"
    /\ LockFree(mu)
    /\ mu' = w
    /\ pcWorker' = [pcWorker EXCEPT ![w] = "load"]
    /\ UNCHANGED <<pcMain, threads, iterations, t, spawned, results, labels,
                   totalLatency, wg, arrays, threadID, workerRound, iters,
                   latency, acc, roundLog, chart>>
    /\ UNCHANGED thrOthers

\* totalLatency += latency: the read of totalLatency
WorkerLoad(w) ==
    /\ pcWorker[w] = "load"
    /\ acc' = [acc EXCEPT ![w] = totalLatency]
    /\ pcWorker' = [pcWorker EXCEPT ![w] = "store"]
    /\ UNCHANGED <<pcMain, threads, iterations, t, spawned, results, labels,
                   totalLatency, mu, wg, arrays, threadID, workerRound,
                   iters, latency, roundLog, chart>>
    /\ UNCHANGED thrOthers

\* totalLatency += latency: the write of the sum
WorkerStore(w) ==
    /\ pcWorker[w] = "store"
    /\ totalLatency' = acc[w] + latency[w]
    /\ pcWorker' = [pcWorker EXCEPT ![w] = "unlock"]
    /\ UNCHANGED <<pcMain, threads, iterations, t, spawned, results, labels,
                   mu, wg, arrays, threadID, workerRound, iters, latency,
                   acc, roundLog, chart>>
    /\ UNCHANGED thrOthers

\* mu.Unlock()
WorkerUnlock(w) ==
    /\ pcWorker[w] = "unlock"
    /\ mu' = Unlocked(mu)
    /\ pcWorker' = [pcWorker EXCEPT ![w] = "exit"]
    /\ UNCHANGED <<pcMain, threads, iterations, t, spawned, results, labels,
                   totalLatency, wg, arrays, threadID, workerRound, iters,
                   latency, acc, roundLog, chart>>
    /\ UNCHANGED thrOthers

\* The use of j, then the deferred wg.Done()
WorkerDone(w) ==
    /\ pcWorker[w] = "exit"
    /\ wg' = wg - 1
    /\ pcWorker' = [pcWorker EXCEPT ![w] = "done"]
    /\ UNCHANGED <<pcMain, threads, iterations, t, spawned, results, labels,
                   totalLatency, mu, arrays, threadID, workerRound, iters,
                   latency, acc, roundLog, chart>>
    /\ UNCHANGED thrOthers

Worker(w) ==
    \/ WorkerRun(w)
    \/ WorkerLock(w)
    \/ WorkerLoad(w)
    \/ WorkerStore(w)
    \/ WorkerUnlock(w)
    \/ WorkerDone(w)

\* The steps of the goroutine that called RunThreadedTest.
ThrHarness ==
    \/ ThrRoundStart
    \/ ThrBuildArrays
    \/ ThrWarmArrays
    \/ ThrSpawn
    \/ ThrSpawned
    \/ ThrAverage
    \/ ThrNextRound
    \/ ThrDrawChart

ThrNext ==
    \/ ThrHarness
    \/ \E w \in Workers : Worker(w)

ThrSpecInit == ThrInit /\ PatternIdle /\ ChaseIdle /\ BwIdle /\ LatIdle /\ RunIdle
    /\ DetailIdle
    /\ AllocIdle
    /\ StrideIdle
    /\ SmpIdle
    /\ CtIdle

ThrSpec == ThrSpecInit /\ [][ThrNext]_vars

\* The Go scheduler runs every runnable goroutine eventually: the harness
\* and each worker take a step that stays enabled.
ThrFairness ==
    /\ WF_vars(ThrHarness)
    /\ \A w \in 0..(MaxFairThreads - 1) : WF_vars(w \in Workers /\ Worker(w))

ThrFairSpecInit == ThrSpecInit /\ threads <= MaxFairThreads

ThrFairSpec == ThrFairSpecInit /\ [][ThrNext]_vars /\ ThrFairness

\* A worker goroutine that has been started and has not returned.
Active(w) == pcWorker[w] \notin {"none", "done"}

\* A worker between mu.Lock() and mu.Unlock().
InSection(w) == pcWorker[w] \in {"load", "store", "unlock"}

RECURSIVE SumLatency(_, _)
SumLatency(f, n) == IF n = 0 THEN 0 ELSE f[n - 1] + SumLatency(f, n - 1)

\* C3: RunThreadedTest hands the chart exactly Threads values and Threads
\* labels; entry t-1 holds the average and the label of the round run with
\* t threads, the rounds being t = 1, 2, ..., Threads, each run once.
C3_OneEntryPerRound ==
    pcMain = "done" =>
        /\ DOMAIN chart.values = 0..(threads - 1)
        /\ DOMAIN chart.labels = 0..(threads - 1)
        /\ Len(roundLog) = threads
        /\ \A k \in 1..threads :
              /\ roundLog[k].t = k
              /\ chart.values[k - 1] = roundLog[k].avgLatency
              /\ chart.labels[k - 1] = ToString(k)

\* The harness has returned from a run with more than one round.
C3_Witness == pcMain = "done" /\ threads > 1 /\ Len(roundLog) > 1

\* C4: at the end of round t the accumulator holds the sum of the t
\* latencies computed by the round's t workers, each added once, and the
\* reported figure is that sum divided by t; for t = 1 it is the single
\* worker's latency.
C4_AccumulatorIsSum ==
    pcMain = "roundEnd" =>
        /\ totalLatency = SumLatency(latency, t)
        /\ results[t - 1] = <<SumLatency(latency, t), t>>
        /\ t = 1 => results[0] = <<latency[0], 1>>

\* A round of several workers that measured different latencies has ended.
C4_Witness ==
    /\ pcMain = "roundEnd"
    /\ t > 1
    /\ \E v, w \in 0..(t - 1) : latency[v] # latency[w]

\* C11: at most one worker at a time is between mu.Lock() and mu.Unlock(),
\* the section that reads and writes totalLatency, and that worker is the
\* holder of the lock; when the harness has read the accumulator no worker
\* of the round can still write it.
C11_MutualExclusion ==
    /\ \A v, w \in Workers : InSection(v) /\ InSection(w) => v = w
    /\ \A w \in Workers : InSection(w) => mu = w
    /\ pcMain = "roundEnd" =>
          \A w \in Workers :
              pcWorker[w] \notin {"run", "lock", "load", "store", "unlock"}

\* One worker is about to write the accumulator while another waits for
\* the lock.
C11_Witness ==
    \E v, w \in Workers : pcWorker[v] = "store" /\ pcWorker[w] = "lock"

\* C12: the harness leaves wg.Wait(), computes the round's average and
\* takes the elapsed time only in a state where each of the t workers of
\* the round has finished its timed loop, added its latency and returned.
C12_WaitForWorkers ==
    [][(pcMain = "wait" /\ pcMain' = "roundEnd") =>
          /\ \A w \in 0..(t - 1) : pcWorker[w] = "done"
          /\ wg = 0
          /\ results'[t - 1] = <<SumLatency(latency, t), t>>]_vars

\* The wait of a round of several workers has returned.
C12_Witness ==
    /\ pcMain = "roundEnd"
    /\ t > 1
    /\ wg = 0
    /\ \A w \in 0..(t - 1) : pcWorker[w] = "done"

\* C13: the rounds run in the order t = 1, 2, ..., Threads; while a worker
\* of a round is running the harness neither builds the buffers of the next
\* round nor starts its workers, and every running worker was started in
\* the current round.
C13_RoundsInOrder ==
    /\ pcMain \in {"loop", "build", "warm", "done"} =>
          \A w \in Workers : ~Active(w)
    /\ \A w \in Workers : Active(w) => workerRound[w] = t
    /\ \A k \in 1..Len(roundLog) : roundLog[k].t = k
    /\ pcMain \in {"build", "warm", "spawn", "wait"} => Len(roundLog) = t - 1

\* A worker of the second round is running after the first round ended.
C13_Witness ==
    /\ pcMain = "wait"
    /\ t = 2
    /\ Len(roundLog) = 1
    /\ \E w \in Workers : Active(w)

\* C17: under fair scheduling RunThreadedTest returns, for every number of
\* threads and every interleaving of its workers: no worker waits for the
\* lock for ever and the harness does not wait for ever at wg.Wait().
C17_Terminates == <>(pcMain = "done")

\* The harness has returned after rounds in which workers queued for the
\* lock, and nothing is left held or counted.
C17_Witness ==
    /\ pcMain = "done"
    /\ threads >= 2
    /\ mu = Nil
    /\ wg = 0
    /\ \A w \in Workers : pcWorker[w] = "done"

\* C18: worker i reads arrays[i] and no other array, so no two workers of
\* a round read the same array; while a worker is running every one of
\* the t arrays of the round is built and warmed up, and stays as the
\* warm-up left it.
C18_ArraysPrivate ==
    /\ \A w \in Workers :
          pcWorker[w] # "none" =>
              threadID[w] = w /\ threadID[w] \in DOMAIN arrays
    /\ \A v, w \in Workers :
          (pcWorker[v] # "none" /\ pcWorker[w] # "none" /\ v # w) =>
              threadID[v] # threadID[w]
    /\ (\E w \in Workers : Active(w)) =>
          /\ DOMAIN arrays = 0..(t - 1)
          /\ \A a \in DOMAIN arrays : arrays[a] = "warm"

\* Two workers of one round have both run their timed loop.
C18_Witness ==
    /\ 1 \in Workers
    /\ pcWorker[0] \notin {"none", "run"}
    /\ pcWorker[1] \notin {"none", "run"}

\* C20: a worker of round t runs max(1000000, Iterations / t) chase steps,
\* the division being the integer one and t the round the worker was
\* started in; t does not change while a worker is running.
C20_IterationCount ==
    /\ [](\A w \in Workers :
            pcWorker[w] \notin {"none", "run"} =>
                LET q == iterations \div workerRound[w]
                IN  iters[w] = IF q >= 1000000 THEN q ELSE 1000000)
    /\ [][(\E w \in Workers : Active(w)) => t' = t]_vars

\* A worker of the third round has run the floor of 1000000 steps because
\* its share of Config.Iterations is smaller.
C20_Witness ==
    \E w \in Workers :
        /\ pcWorker[w] = "lock"
        /\ workerRound[w] = 3
        /\ iterations \div 3 < 1000000
        /\ iters[w] = 1000000

(***************************************************************************)
(* MemTester.RunDetailedBenchmark                                          *)
(***************************************************************************)

\* sizes := []int{4 * 1024, 64 * 1024, 1024 * 1024, 8 * 1024 * 1024}
BaseBlockSizes == <<4096, 65536, 1048576, 8388608>>

\* The block appended when the large test is not skipped.
LargeBlockSize == 67108864

\* if !m.Config.SkipLargeTests { sizes = append(sizes, 64*1024*1024) }
BlockSizes(skip) ==
    IF skip THEN BaseBlockSizes ELSE Append(BaseBlockSizes, LargeBlockSize)

\* results := make([]float64, len(sizes)); labels likewise
AllocLen(sizes) == Len(sizes)

\* The label of a size printed without the division by 1024.
KBLabelUnscaled(bytes) == ToString(bytes) \o " KB"

\* fmt.Sprintf("%d KB", size/1024)
KBLabel(bytes) == ToString(bytes \div 1024) \o " KB"

DetailInit ==
    /\ pcDetail = "loop"
    /\ skipLarge \in BOOLEAN
    /\ blockSizes = BlockSizes(skipLarge)
    /\ blockIndex = 0
    /\ blockResults = [k \in 0..(AllocLen(blockSizes) - 1) |-> 0]
    /\ blockLabels = [k \in 0..(AllocLen(blockSizes) - 1) |-> ""]
    /\ blockLog = <<>>
    /\ blockChart = <<>>

\* One iteration of the loop over sizes: the label, the array, the warm-up,
\* the timed chase, results[i] = avgLatency and the printed line.
DetailMeasure ==
    /\ pcDetail = "loop"
    /\ blockIndex < Len(blockSizes)
    /\ \E l \in LatencyValues :
          LET bytes == blockSizes[blockIndex + 1]
          IN  /\ blockLabels' = [blockLabels EXCEPT ![blockIndex] = KBLabel(bytes)]
              /\ blockResults' = [blockResults EXCEPT ![blockIndex] = l]
              /\ blockLog' = Append(blockLog, [size |-> bytes, avgLatency |-> l])
    /\ blockIndex' = blockIndex + 1
    /\ UNCHANGED <<pcDetail, skipLarge, blockSizes, blockChart>>
    /\ UNCHANGED detailOthers

\* m.drawChart("Memory Latency by Block Size", results, labels, "ns")
DetailDrawChart ==
    /\ pcDetail = "loop"
    /\ blockIndex = Len(blockSizes)
    /\ blockChart' = DrawChart(blockResults, blockLabels)
    /\ pcDetail' = "done"
    /\ UNCHANGED <<skipLarge, blockSizes, blockIndex, blockResults,
                   blockLabels, blockLog>>
    /\ UNCHANGED detailOthers

DetailNext ==
    \/ DetailMeasure
    \/ DetailDrawChart

DetailSpecInit ==
    DetailInit /\ PatternIdle /\ ChaseIdle /\ BwIdle /\ LatIdle /\ RunIdle /\ ThrIdle
    /\ AllocIdle
    /\ StrideIdle
    /\ SmpIdle
    /\ CtIdle

\* Either harness that hands a chart of several bars to the sink runs.
SinkSpecInit == ThrSpecInit \/ DetailSpecInit

SinkNext ==
    \/ ThrNext
    \/ DetailNext

SinkSpec == SinkSpecInit /\ [][SinkNext]_vars

C15_AnomalyFlagged ==
    \A k \in 1..Len(printed) : printed[k].ns = 0 => printed[k].suspect

\* C19: once the pattern is built no step of runLatencyTests changes a
\* link or the first node: the warm-up and the five passes walk the nodes
\* as setupRandomPattern left them, and every pass starts from firstNode,
\* so that it ends iterCount dereferences after it.
C19_PatternFrozen ==
    /\ [](pass > 0 => runCurrent = Chase(runNodes, firstNode, RunIterCount))
    /\ [][runNodes' = runNodes /\ firstNode' = firstNode]_vars

\* The five passes have run over an arena whose walk does not end on the
\* node it started from.
C19_Witness ==
    /\ pcRun = "done"
    /\ pass = 5
    /\ Len(printed) = 5
    /\ runCurrent # firstNode

\* C16: a requested size that gives fewer nodes than a pattern needs never
\* makes a pattern-building routine fail: the routine falls back to its
\* minimum node count and builds a cycle over that many nodes.
C16_SmallSizeFallsBack == pcChase # "panic"

(***************************************************************************)
(* MemTester.RunThreadedTest: the size of the per-thread buffers           *)
(***************************************************************************)

\* Largest of the small values of Config.Threads.
MaxAllocThreads == 20

\* A Config.Threads above 2^27, the number of 8-byte elements in 1 GiB.
TooManyThreads == 2 ^ 27 + 1

\* The values of Config.Threads: below, at and above the 16 threads that
\* fill 1 GiB with 64 MiB blocks, and one so large that a block is smaller
\* than an element.
ThreadCounts == (1..MaxAllocThreads) \cup {TooManyThreads}

\* blockSize := 64 * 1024 * 1024
BlockBytes == 67108864

\* 1024 * 1024 * 1024
CapBytes == 1073741824

\* elements := blockSize / 8
ElementBytes == 8

\* blockSize*m.Config.Threads > 1024*1024*1024 on Go's 64-bit int, for
\* positive operands whose product fits 64 bits; written as a quotient
\* because the product of the large thread count exceeds 32 bits.
ExceedsCap(bytes, n) == n > CapBytes \div bytes

\* blockSize := 64 MiB; if blockSize*Threads > 1 GiB { blockSize = 1 GiB / Threads }
BlockSize(n) == IF ExceedsCap(BlockBytes, n) THEN CapBytes \div n ELSE BlockBytes

AllocInit ==
    /\ pcAlloc = "size"
    /\ allocThreads \in ThreadCounts
    /\ allocBlockSize = 0
    /\ allocElements = 0
    /\ allocRound = 0
    /\ allocTotal = 0

\* blockSize, elements := blockSize / 8, and the head of the round loop.
AllocSize ==
    /\ pcAlloc = "size"
    /\ allocBlockSize' = BlockSize(allocThreads)
    /\ allocElements' = BlockSize(allocThreads) \div ElementBytes
    /\ allocRound' = 1
    /\ pcAlloc' = "round"
    /\ UNCHANGED <<allocThreads, allocTotal>>
    /\ UNCHANGED allocOthers

\* Round t: t arrays of elements int64 each are made and linked.
AllocRound ==
    /\ pcAlloc = "round"
    /\ allocRound <= allocThreads
    /\ allocElements >= 1
    /\ allocTotal' = allocRound * allocElements * ElementBytes
    /\ allocRound' = allocRound + 1
    /\ UNCHANGED <<pcAlloc, allocThreads, allocBlockSize, allocElements>>
    /\ UNCHANGED allocOthers

\* arrays[i][indices[elements-1]] with elements = 0: index out of range.
AllocPanic ==
    /\ pcAlloc = "round"
    /\ allocRound <= allocThreads
    /\ allocElements < 1
    /\ pcAlloc' = "panic"
    /\ UNCHANGED <<allocThreads, allocBlockSize, allocElements, allocRound,
                   allocTotal>>
    /\ UNCHANGED allocOthers

\* The round loop is over.
AllocDone ==
    /\ pcAlloc = "round"
    /\ allocRound > allocThreads
    /\ pcAlloc' = "done"
    /\ UNCHANGED <<allocThreads, allocBlockSize, allocElements, allocRound,
                   allocTotal>>
    /\ UNCHANGED allocOthers

AllocNext ==
    \/ AllocSize
    \/ AllocRound
    \/ AllocPanic
    \/ AllocDone

AllocSpecInit ==
    AllocInit /\ PatternIdle /\ ChaseIdle /\ BwIdle /\ LatIdle /\ RunIdle
    /\ ThrIdle /\ DetailIdle
    /\ StrideIdle
    /\ SmpIdle
    /\ CtIdle

AllocSpec == AllocSpecInit /\ [][AllocNext]_vars

\* C21: for every Threads >= 1 the block size is 64 MiB, or 1 GiB / Threads
\* when 64 MiB x Threads exceeds 1 GiB; the buffers of every round t take
\* at most 1 GiB together, and every buffer has at least one element.
C21_FootprintCapped ==
    pcAlloc \in {"round", "panic", "done"} =>
        /\ allocBlockSize = IF allocThreads > 16
                            THEN 1073741824 \div allocThreads
                            ELSE 67108864
        /\ allocTotal <= 1073741824
        /\ (allocRound - 1) * allocBlockSize <= 1073741824
        /\ allocElements >= 1

\* C22: a worker asks for the lock only after its timed loop has ended
\* and its latency has been taken; the timed phase of a worker takes no
\* lock, changes neither the lock nor the counter of the wait, and can run
\* whatever the other workers are doing.
C22_LockAfterTiming ==
    /\ [](\A w \in Workers :
            /\ mu = w => pcWorker[w] \in {"load", "store", "unlock"}
            /\ pcWorker[w] \in {"lock", "load", "store", "unlock"} =>
                  latency[w] \in LatencyValues /\ iters[w] >= 1000000
            /\ pcWorker[w] = "run" => ENABLED WorkerRun(w))
    /\ [][\A w \in Workers :
            (pcWorker[w] = "run" /\ pcWorker'[w] = "lock") =>
                mu' = mu /\ wg' = wg /\ totalLatency' = totalLatency]_vars

\* A worker is in its timed phase while another holds the lock.
C22_Witness ==
    \E v, w \in Workers : pcWorker[v] = "run" /\ mu = w /\ v # w

\* The indices whose bandwidth is, in exact arithmetic, more than 30% below
\* the bandwidth measured just before.
StrictDropIndices ==
    {k \in 1..(NumSizes - 1) : 10 * bandwidths[k] < 7 * bandwidths[k - 1]}

\* C23: the analysis marks a boundary at index k only when bandwidths[k] is
\* more than 30% below bandwidths[k-1], the measurement just before it: a
\* drop of exactly 30%, a smaller drop or an increase marks nothing, and
\* the first such index is the one attributed to L1.
C23_StrictThreshold ==
    pcBw = "done" =>
        /\ ({l1Index, l2Index, l3Index} \ {-1}) \subseteq StrictDropIndices
        /\ StrictDropIndices # {} =>
              l1Index = NthIndex(StrictDropIndices, 1)

C25_PartnerDistance ==
    [][(pcPattern = "shuffle" /\ pcPattern' = "shuffle") =>
          /\ i' = i + 1
          /\ \E j \in 0..(nodeCount - 1) :
                /\ indices' = Swap(indices, i, j)
                /\ j # i
                /\ Abs(j - i) >= MinDistance(nodeCount)
          /\ Range(indices') = 0..(nodeCount - 1)]_vars

MaxStrideNodes == 100

\* minDistance as computed in the first iteration of the shuffle.
StrideInit ==
    /\ pcStride = "start"
    /\ strideNodes \in 1..MaxStrideNodes
    /\ strideDistance = 0

StrideChoose ==
    /\ pcStride = "start"
    /\ strideDistance' = MinDistance(strideNodes)
    /\ pcStride' = "chosen"
    /\ UNCHANGED strideNodes
    /\ UNCHANGED strideOthers

StrideNext == StrideChoose

StrideSpecInit ==
    /\ StrideInit
    /\ PatternIdle /\ ChaseIdle /\ BwIdle /\ LatIdle /\ RunIdle /\ ThrIdle
    /\ DetailIdle /\ AllocIdle
    /\ SmpIdle
    /\ CtIdle

StrideSpec == StrideSpecInit /\ [][StrideNext]_vars

\* C27: the minimum stride of the shuffle is the larger of 16 and a quarter
\* of the node count (integer division), for every node count.
C27_StrideIsMax ==
    pcStride = "chosen" =>
        /\ strideDistance >= 16
        /\ strideDistance >= strideNodes \div 4
        /\ strideDistance \in {16, strideNodes \div 4}

\* The stride of an array large enough for a quarter of it to exceed 16.
C27_Witness ==
    /\ pcStride = "chosen"
    /\ strideNodes \div 4 > 16
    /\ strideDistance = strideNodes \div 4

(***************************************************************************)
(* The latency samplers, one dereference at a time: MemTester.RunAll       *)
(* (src/pkg/test1/test1.go), MemTester.AdvancedLatencyTest                 *)
(* (src/pkg/test2/advanced.go), runLatencyTests (src/test2/advanced.go)    *)
(* and testCacheLatency (src/unnamed/part_001)                             *)
(***************************************************************************)

Samplers == {"RunAll", "AdvancedLatencyTest", "runLatencyTests",
             "testCacheLatency"}

\* Largest array of the samplers that link a rand.Perm.  In RunAll it is
\* Config.ArraySize; in AdvancedLatencyTest and testCacheLatency it stands
\* in for the node counts, which are at least 1000 and at least 100.
MaxSmpNodes == 3

\* Dereferences of a fixed warm-up loop (1000000 in RunAll and
\* runLatencyTests, 1000 in AdvancedLatencyTest).
SmpWarmup == 2

\* Dereferences of a fixed timed loop (iterCount = 10000000 in
\* runLatencyTests, iterations := 1000000 in testCacheLatency).
SmpIterCount == 2

\* Largest Config.Iterations; the flag -iter also takes zero and negative
\* numbers.
MaxSmpIterations == 2

SmpIterations == (-1)..MaxSmpIterations

\* What time.Since(start).Nanoseconds() can read.
SmpElapsedValues == {0, 1500}

\* The linking that leaves the last node of the order without a successor.
CloseLoopNil(idx, n) ==
    [k \in 0..(n - 1) |->
        LET p == CHOOSE q \in 0..(n - 1) : idx[q] = k
        IN  IF p < n - 1 THEN idx[p + 1] ELSE Nil]

\* for i < n-1 { array[indices[i]] = indices[i+1] }
\* array[indices[n-1]] = indices[0] // Close the loop
CloseLoop(idx, n) ==
    [k \in 0..(n - 1) |->
        LET p == CHOOSE q \in 0..(n - 1) : idx[q] = k
        IN  IF p < n - 1 THEN idx[p + 1] ELSE idx[0]]

\* The arrays a sampler can be handed: a linked rand.Perm, or for
\* runLatencyTests an arena of setupRandomPattern.
SmpArrays(kind, n) ==
    IF kind = "runLatencyTests" THEN {Arena(17, 0), Arena(18, 1)}
    ELSE {CloseLoop(idx, n) : idx \in Perm(n)}

\* Where the traversal starts: j := 0, &nodes[0], &nodes[indices[0]] (any
\* node, indices being random) or &(*nodes)[rand.Intn(len(*nodes))].
SmpStarts(kind, n) ==
    IF kind \in {"RunAll", "testCacheLatency"} THEN {0} ELSE 0..(n - 1)

\* The bound of the warm-up loop.
WarmupOf(kind, n) == IF kind = "testCacheLatency" THEN n ELSE SmpWarmup

\* The iteration counts of the timed loop.
SmpIterationsOf(kind) ==
    IF kind \in {"RunAll", "AdvancedLatencyTest"} THEN SmpIterations
    ELSE {SmpIterCount}

\* The condition under which the chased value is printed: if j < 0 in
\* RunAll, if current == nil in the pointer samplers.
ConsumeCondition(kind, v) == IF kind = "RunAll" THEN v < 0 ELSE v = Nil

\* for i := 0; i < iterations; i++
LoopBound(k) == k

SmpInit ==
    /\ pcSmp = "build"
    /\ smpKind \in Samplers
    /\ smpSize \in IF smpKind = "runLatencyTests" THEN {17, 18}
                   ELSE IF smpKind = "RunAll" THEN 0..MaxSmpNodes
                   ELSE 1..MaxSmpNodes
    /\ smpIters \in SmpIterationsOf(smpKind)
    /\ smpLinks = <<>>
    /\ smpFirst = 0
    /\ smpCurrent = 0
    /\ smpWarmed = 0
    /\ smpTimed = 0
    /\ smpInside = 0
    /\ smpOpen = FALSE
    /\ smpPass = 0
    /\ smpElapsed = 0
    /\ smpLatency = <<>>
    /\ smpPrinted = FALSE

\* The array is linked and the chased value is set to the start.
SmpBuild ==
    /\ pcSmp = "build"
    /\ smpSize >= 1
    /\ \E a \in SmpArrays(smpKind, smpSize) :
          /\ DOMAIN a = 0..(smpSize - 1)
          /\ smpLinks' = a
    /\ \E f \in SmpStarts(smpKind, smpSize) :
          /\ smpFirst' = f
          /\ smpCurrent' = f
    /\ pcSmp' = "warm"
    /\ UNCHANGED <<smpKind, smpSize, smpIters, smpWarmed, smpTimed, smpInside,
                   smpOpen, smpPass, smpElapsed, smpLatency, smpPrinted>>
    /\ UNCHANGED smpOthers

\* RunAll with an ArraySize of 0: indices[m.Config.ArraySize-1] is out of
\* range.
SmpBuildPanic ==
    /\ pcSmp = "build"
    /\ smpSize < 1
    /\ pcSmp' = "panic"
    /\ UNCHANGED <<smpKind, smpSize, smpIters, smpLinks, smpFirst, smpCurrent,
                   smpWarmed, smpTimed, smpInside, smpOpen, smpPass,
                   smpElapsed, smpLatency, smpPrinted>>
    /\ UNCHANGED smpOthers

\* One iteration of the warm-up loop.
SmpWarmStep ==
    /\ pcSmp = "warm"
    /\ smpWarmed < WarmupOf(smpKind, smpSize)
    /\ smpCurrent' = Deref(smpLinks, smpCurrent)
    /\ smpWarmed' = smpWarmed + 1
    /\ UNCHANGED <<pcSmp, smpKind, smpSize, smpIters, smpLinks, smpFirst,
                   smpTimed, smpInside, smpOpen, smpPass, smpElapsed,
                   smpLatency, smpPrinted>>
    /\ UNCHANGED smpOthers

\* The warm-up loop ends; RunAll consumes j here as well (if j < 0).
SmpWarmDone ==
    /\ pcSmp = "warm"
    /\ ~(smpWarmed < WarmupOf(smpKind, smpSize))
    /\ smpPrinted' = (smpPrinted \/ (smpKind = "RunAll" /\
                                     ConsumeCondition(smpKind, smpCurrent)))
    /\ pcSmp' = IF smpKind = "runLatencyTests" THEN "reset" ELSE "start"
    /\ UNCHANGED <<smpKind, smpSize, smpIters, smpLinks, smpFirst, smpCurrent,
                   smpWarmed, smpTimed, smpInside, smpOpen, smpPass,
                   smpElapsed, smpLatency>>
    /\ UNCHANGED smpOthers

\* current = firstNode before the start timestamp of a pass of
\* runLatencyTests; j = 0 after the start timestamp of RunAll.
SmpReset ==
    /\ pcSmp = "reset"
    /\ smpCurrent' = smpFirst
    /\ smpInside' = IF smpOpen THEN smpInside + 1 ELSE smpInside
    /\ pcSmp' = IF smpOpen THEN "timed" ELSE "start"
    /\ UNCHANGED <<smpKind, smpSize, smpIters, smpLinks, smpFirst, smpWarmed,
                   smpTimed, smpOpen, smpPass, smpElapsed, smpLatency,
                   smpPrinted>>
    /\ UNCHANGED smpOthers

\* start := time.Now()
SmpStart ==
    /\ pcSmp = "start"
    /\ smpOpen' = TRUE
    /\ smpTimed' = 0
    /\ smpInside' = 0
    /\ pcSmp' = IF smpKind = "RunAll" THEN "reset" ELSE "timed"
    /\ UNCHANGED <<smpKind, smpSize, smpIters, smpLinks, smpFirst, smpCurrent,
                   smpWarmed, smpPass, smpElapsed, smpLatency, smpPrinted>>
    /\ UNCHANGED smpOthers

\* One iteration of the timed loop.
SmpTimedStep ==
    /\ pcSmp = "timed"
    /\ smpTimed < LoopBound(smpIters)
    /\ smpCurrent' = Deref(smpLinks, smpCurrent)
    /\ smpTimed' = smpTimed + 1
    /\ UNCHANGED <<pcSmp, smpKind, smpSize, smpIters, smpLinks, smpFirst,
                   smpWarmed, smpInside, smpOpen, smpPass, smpElapsed,
                   smpLatency, smpPrinted>>
    /\ UNCHANGED smpOthers

\* elapsed := time.Since(start)
SmpStop ==
    /\ pcSmp = "timed"
    /\ ~(smpTimed < LoopBound(smpIters))
    /\ smpElapsed' \in SmpElapsedValues
    /\ smpOpen' = FALSE
    /\ pcSmp' = "report"
    /\ UNCHANGED <<smpKind, smpSize, smpIters, smpLinks, smpFirst, smpCurrent,
                   smpWarmed, smpTimed, smpInside, smpPass, smpLatency,
                   smpPrinted>>
    /\ UNCHANGED smpOthers

\* nsPerAccess := float64(elapsed.Nanoseconds()) / float64(iterations), kept
\* as numerator and denominator, and the consuming test of the chased value.
SmpReport ==
    /\ pcSmp = "report"
    /\ smpLatency' = <<smpElapsed, smpIters>>
    /\ smpPrinted' = (smpPrinted \/ ConsumeCondition(smpKind, smpCurrent))
    /\ smpPass' = smpPass + 1
    /\ pcSmp' = IF smpKind = "runLatencyTests" /\ smpPass + 1 < NumPasses
                THEN "reset" ELSE "done"
    /\ UNCHANGED <<smpKind, smpSize, smpIters, smpLinks, smpFirst, smpCurrent,
                   smpWarmed, smpTimed, smpInside, smpOpen, smpElapsed>>
    /\ UNCHANGED smpOthers

SmpNext ==
    \/ SmpBuild
    \/ SmpBuildPanic
    \/ SmpWarmStep
    \/ SmpWarmDone
    \/ SmpReset
    \/ SmpStart
    \/ SmpTimedStep
    \/ SmpStop
    \/ SmpReport

SmpSpecInit ==
    /\ SmpInit
    /\ PatternIdle /\ ChaseIdle /\ BwIdle /\ LatIdle /\ RunIdle /\ ThrIdle
    /\ DetailIdle /\ AllocIdle /\ StrideIdle
    /\ CtIdle

SmpSpec == SmpSpecInit /\ [][SmpNext]_vars

\* The phases in which a sampler holds a chased value.
SmpChasing == pcSmp \in {"warm", "reset", "start", "timed", "report", "done"}

\* C28: in every state of the warm-up and the timed phase of every latency
\* sampler the chased value is a valid node: an index within 0..N-1 and not
\* nil, so the consuming condition (j < 0, current == nil) is false and the
\* print behind it has not been executed.
C28_ChasedValueValid ==
    SmpChasing =>
        /\ smpCurrent \in 0..(smpSize - 1)
        /\ smpCurrent # Nil
        /\ ~ConsumeCondition(smpKind, smpCurrent)
        /\ ~smpPrinted

\* testCacheLatency has walked round its nodes and a timed loop and has
\* taken the consuming test.
C28_Witness ==
    /\ pcSmp = "done"
    /\ smpKind = "testCacheLatency"
    /\ smpSize > 1
    /\ smpWarmed = smpSize
    /\ smpTimed > 0

\* C29: in each latency sampler the warm-up is complete when the start
\* timestamp is taken and no warm-up step follows it; between the start
\* and the stop timestamp there are exactly k dereferences, k being the
\* iteration count, and no other statement; the latency is the elapsed time
\* divided by k.
C29_TimedWindowExact ==
    /\ (smpOpen \/ pcSmp \in {"report", "done"}) =>
            smpWarmed = WarmupOf(smpKind, smpSize)
    /\ pcSmp \in {"report", "done"} =>
            /\ smpTimed = smpIters
            /\ smpInside = 0
    /\ pcSmp = "done" => smpLatency = <<smpElapsed, smpIters>>

(***************************************************************************)
(* MemTester.RunCacheTests, testCacheLatency and testCacheBandwidth        *)
(* (src/unnamed/part_001)                                                  *)
(***************************************************************************)

\* The values a field of CacheSizes is drawn from: nothing detected, the
\* sizes round the one- and two-element buffers, and three cache sizes.
CacheFieldValues == {0, 15, 16, 31, 32, 32768, 262144}

\* Largest buffer whose sum is computed exactly; the sum of a larger one is
\* beyond the integers of the model and is positive.
SumExactElements == 64

SumLarge == 2 ^ 30

\* {"L1 Cache", L1/2}, {"L2 Cache", L2/2}, {"L3 Cache", L3/2},
\* {"Main Memory", 64*1024*1024}
TestSizes(cs) ==
    <<[name |-> "L1 Cache", size |-> cs.L1 \div 2],
      [name |-> "L2 Cache", size |-> cs.L2 \div 2],
      [name |-> "L3 Cache", size |-> cs.L3 \div 2],
      [name |-> "Main Memory", size |-> 64 * 1024 * 1024]>>

\* nodeCount := size / 64; if nodeCount < 100 { nodeCount = 100 }
LatencyNodes(bytes) == IF bytes \div 64 < 100 THEN 100 ELSE bytes \div 64

\* elements := size / 8
BufferElements(bytes) == bytes \div 8

\* iterations := 1000; if elements > 100000 { iterations = 100 }
ReadIterations(e) == IF e > 100000 THEN 100 ELSE 1000

\* sum after the warm-up and the read loops over buffer[i] = i: the sum
\* 0 + 1 + ... + (e - 1), once and then iterations times more.
ReadSum(e, iter) ==
    IF e > SumExactElements THEN SumLarge
    ELSE (1 + iter) * ((e * (e - 1)) \div 2)

CtInit ==
    /\ pcCt = "loop"
    /\ cacheSizes \in [L1 : CacheFieldValues, L2 : CacheFieldValues,
                       L3 : CacheFieldValues]
    /\ testIndex = 1
    /\ testSize = 0
    /\ latencyNodes = 0
    /\ elements = 0
    /\ readSum = 0
    /\ tempBuffer = 0
    /\ pointersPrinted = 0

\* for _, test := range testSizes
CtTest ==
    /\ pcCt = "loop"
    /\ testIndex <= Len(TestSizes(cacheSizes))
    /\ testSize' = TestSizes(cacheSizes)[testIndex].size
    /\ pcCt' = "latency"
    /\ UNCHANGED <<cacheSizes, testIndex, latencyNodes, elements, readSum,
                   tempBuffer, pointersPrinted>>
    /\ UNCHANGED ctOthers

\* testCacheLatency(test.size, test.name)
CtLatency ==
    /\ pcCt = "latency"
    /\ latencyNodes' = LatencyNodes(testSize)
    /\ pcCt' = "bandwidth"
    /\ UNCHANGED <<cacheSizes, testIndex, testSize, elements, readSum,
                   tempBuffer, pointersPrinted>>
    /\ UNCHANGED ctOthers

\* testCacheBandwidth up to its three Printf: the buffers and the sum.
CtBandwidth ==
    /\ pcCt = "bandwidth"
    /\ elements' = BufferElements(testSize)
    /\ readSum' = ReadSum(BufferElements(testSize),
                          ReadIterations(BufferElements(testSize)))
    /\ tempBuffer' = BufferElements(testSize)
    /\ pcCt' = "consume"
    /\ UNCHANGED <<cacheSizes, testIndex, testSize, latencyNodes,
                   pointersPrinted>>
    /\ UNCHANGED ctOthers

\* if sum == 0 { fmt.Printf("%p", unsafe.Pointer(&tempBuffer[0])) }
CtConsume ==
    /\ pcCt = "consume"
    /\ readSum = 0 => 0 < tempBuffer
    /\ pointersPrinted' = IF readSum = 0 THEN pointersPrinted + 1
                          ELSE pointersPrinted
    /\ testIndex' = testIndex + 1
    /\ pcCt' = "loop"
    /\ UNCHANGED <<cacheSizes, testSize, latencyNodes, elements, readSum,
                   tempBuffer>>
    /\ UNCHANGED ctOthers

\* &tempBuffer[0] of a buffer without elements: index out of range.
CtPanic ==
    /\ pcCt = "consume"
    /\ readSum = 0
    /\ ~(0 < tempBuffer)
    /\ pcCt' = "panic"
    /\ UNCHANGED <<cacheSizes, testIndex, testSize, latencyNodes, elements,
                   readSum, tempBuffer, pointersPrinted>>
    /\ UNCHANGED ctOthers

CtDone ==
    /\ pcCt = "loop"
    /\ testIndex > Len(TestSizes(cacheSizes))
    /\ pcCt' = "done"
    /\ UNCHANGED <<cacheSizes, testIndex, testSize, latencyNodes, elements,
                   readSum, tempBuffer, pointersPrinted>>
    /\ UNCHANGED ctOthers

CtNext ==
    \/ CtTest
    \/ CtLatency
    \/ CtBandwidth
    \/ CtConsume
    \/ CtPanic
    \/ CtDone

CtSpecInit ==
    /\ CtInit
    /\ PatternIdle /\ ChaseIdle /\ BwIdle /\ LatIdle /\ RunIdle /\ ThrIdle
    /\ DetailIdle /\ AllocIdle /\ StrideIdle /\ SmpIdle

CtSpec == CtSpecInit /\ [][CtNext]_vars

\* C30: RunCacheTests runs all four tests without an out-of-range access
\* for every CacheSizes with non-negative fields, a buffer without elements
\* included: no test stops on the index 0 of the scratch buffer.
C30_NoOutOfRange ==
    /\ pcCt # "panic"
    /\ pcCt = "consume" /\ readSum = 0 => 0 < tempBuffer

====
